---- MODULE Spec2Model ----
(***************************************************************************)
(* Conversation state synchronisation of the chat sidebar                  *)
(* (src/components/AppSidebar.tsx): the swap protocol between the Message   *)
(* Store (the one live conversation) and the Conversation Store (the list  *)
(* of stored conversations, the pinned ids, the current id), the sidebar   *)
(* menu operations, search, and the streamed title summarisation.          *)
(*                                                                         *)
(* Texts (titles, message part texts, keywords) are sequences of UTF-16    *)
(* code units, e.g. "a" is <<97>>.  Ids are strings: "default" and the     *)
(* generated ids "c1", "c2", ...                                           *)
(*                                                                         *)
(* The two stores (@/store/conversation, @/store/chat) are imported by the *)
(* sidebar but their files are not part of the sources at hand; their      *)
(* operations are modelled from the specification text (sections 3, 4).    *)
(***************************************************************************)
EXTENDS Integers, Sequences, FiniteSets, TLC

VARIABLES
    conversationList,  \* Conversation Store: ordered entries <<[id, conversation]>>
    pinned,            \* Conversation Store: set of pinned ids
    currentId,         \* Conversation Store: id of the live conversation
    messageStore,      \* Message Store: the live conversation's fields
    conversations,     \* AppSidebar state: search results, or null
    editTitleMode,     \* ConversationItem state: ids whose item shows the title editor
    tasks,             \* the handleSummaryTitle calls started so far
    nanoidCount,       \* number of ids generated so far
    messageCount,      \* number of messages sent so far
    steps,             \* number of steps taken so far
    lastOp,            \* history: the step taken last, [name, id]
    uncaught,          \* the error the handler run last let escape, or "none"
    geminiModelList,   \* Setting: the value of GEMINI_MODEL_LIST
    modelRecord,       \* Setting: the Model record as it is now
    modelStoreModels,  \* Model Store: the fetched models
    cachedModelList,   \* Setting: the module's cachedModelList flag
    settingModel,      \* Setting Store: the saved model
    modelOptions,      \* Setting: the value of the modelOptions memo, or null
    open,              \* Setting: the open prop
    fetching,          \* Setting: number of fetchModels calls not yet answered
    modelsChanged      \* Setting: modelStore.models was set since the memo ran

\* the variables of the sidebar and those of the setting dialog
sidebarVars ==
    <<conversationList, pinned, currentId, messageStore, conversations,
      editTitleMode, tasks, nanoidCount, messageCount, steps, lastOp,
      uncaught>>

settingVars ==
    <<geminiModelList, modelRecord, modelStoreModels, cachedModelList,
      settingModel, modelOptions, open, fetching, modelsChanged>>

vars == <<conversationList, pinned, currentId, messageStore, conversations,
          editTitleMode, tasks, nanoidCount, messageCount, steps, lastOp,
          uncaught, geminiModelList, modelRecord, modelStoreModels,
          cachedModelList, settingModel, modelOptions, open, fetching,
          modelsChanged>>

---------------------------------------------------------------------------
(* Bounds of the model                                                     *)

MaxIds == 2        \* ids nanoid() generates in one behaviour
MaxMessages == 2   \* messages sent in one behaviour
MaxTasks == 1      \* summarisations started in one behaviour
MaxChunks == 2     \* chunks one summarisation stream delivers at most
MaxSteps == 6      \* steps (user operations and stream reads) of one behaviour

---------------------------------------------------------------------------
(* Values                                                                  *)

DefaultId == "default"

\* nanoid(): the n-th generated id; generated ids are pairwise distinct and
\* differ from "default" (a collision of two 12-character random ids is
\* treated as impossible).
nanoid(n) == "c" \o ToString(n)

\* The empty conversation built by newConversation.
EmptyConversation ==
    [title |-> <<>>,
     messages |-> <<>>,
     summary |-> [ids |-> <<>>, content |-> <<>>],
     systemInstruction |-> <<>>,
     chatLayout |-> "doc"]

\* Texts the user types into the title editor: "A".
TitleInputs == {<<65>>}

\* Texts of the messages the user sends in the chat view: "a".
MessageInputs == {<<97>>}


---------------------------------------------------------------------------
(* Conversation Store (@/store/conversation), from the specification:      *)
(* a mapping from id to Conversation that keeps the insertion order of its *)
(* keys, as a JavaScript object does.                                      *)

Keys(list) == {list[i].id : i \in 1..Len(list)}

IndexOf(list, id) == CHOOSE i \in 1..Len(list) : list[i].id = id

\* query(id): the entry stored at id; an id that is not in the list yields
\* an empty conversation.
query(list, id) ==
    IF id \in Keys(list) THEN list[IndexOf(list, id)].conversation
    ELSE EmptyConversation

\* addOrUpdate(id, conversation): insert or overwrite; an existing key keeps
\* its position, a new key goes last.
addOrUpdate(list, id, conversation) ==
    IF id \in Keys(list)
    THEN [list EXCEPT ![IndexOf(list, id)].conversation = conversation]
    ELSE Append(list, [id |-> id, conversation |-> conversation])

\* the list without the entry at id.
omit(list, id) ==
    SelectSeq(list, LAMBDA e : e.id # id)

\* pin(id): add id to the pinned set; no-op for "default".
pin(pins, id) == IF id = DefaultId THEN pins ELSE pins \cup {id}

\* unpin(id): remove id from the pinned set.
unpin(pins, id) == pins \ {id}

\* copy(id): the conversation stored at id duplicated under a new id, which
\* goes last; an id that is not in the list is not copied.
copy(list, id, newId) ==
    IF id \in Keys(list) THEN addOrUpdate(list, newId, query(list, id))
    ELSE list

\* remove(id): delete from the list; "default" is never deleted.
remove(list, id) == IF id = DefaultId THEN list ELSE omit(list, id)

---------------------------------------------------------------------------
(* Message Store (@/store/chat), from the specification.                   *)

\* backup(): a Conversation snapshot of the live fields.
backup(store) ==
    [title |-> store.title,
     messages |-> store.messages,
     summary |-> store.summary,
     systemInstruction |-> store.systemInstruction,
     chatLayout |-> store.chatLayout]

\* restore(conversation): replace all live fields by the conversation's.
restore(conversation) ==
    [title |-> conversation.title,
     messages |-> conversation.messages,
     summary |-> conversation.summary,
     systemInstruction |-> conversation.systemInstruction,
     chatLayout |-> conversation.chatLayout]

\* setTitle(text): set the live title.
setTitle(store, text) == [store EXCEPT !.title = text]

---------------------------------------------------------------------------
(* new TextDecoder().decode(value): the UTF-8 decoder of the Encoding      *)
(* standard, run on one chunk of bytes and flushed at the end of the chunk *)
(* (no {stream: true}), with a malformed or truncated sequence replaced by *)
(* U+FFFD and a leading byte order mark dropped.  The result is a          *)
(* JavaScript string: a sequence of UTF-16 code units.                     *)

Utf8Start == [needed |-> 0, seen |-> 0, cp |-> 0, lower |-> 128, upper |-> 191]

\* the code units of one decoded code point
CodeUnits(cp) ==
    IF cp < 65536 THEN <<cp>>
    ELSE <<55296 + ((cp - 65536) \div 1024), 56320 + ((cp - 65536) % 1024)>>

RECURSIVE Utf8Run(_, _, _)
Utf8Run(bytes, i, st) ==
    IF i > Len(bytes)
    THEN \* end of the chunk: a sequence still open is one error
         IF st.needed # 0 THEN <<65533>> ELSE <<>>
    ELSE LET b == bytes[i] IN
         IF st.needed = 0
         THEN IF b <= 127 THEN <<b>> \o Utf8Run(bytes, i + 1, Utf8Start)
              ELSE IF b >= 194 /\ b <= 223
              THEN Utf8Run(bytes, i + 1,
                           [Utf8Start EXCEPT !.needed = 1, !.cp = b % 32])
              ELSE IF b >= 224 /\ b <= 239
              THEN Utf8Run(bytes, i + 1,
                           [Utf8Start EXCEPT !.needed = 2, !.cp = b % 16,
                               !.lower = IF b = 224 THEN 160 ELSE 128,
                               !.upper = IF b = 237 THEN 159 ELSE 191])
              ELSE IF b >= 240 /\ b <= 244
              THEN Utf8Run(bytes, i + 1,
                           [Utf8Start EXCEPT !.needed = 3, !.cp = b % 8,
                               !.lower = IF b = 240 THEN 144 ELSE 128,
                               !.upper = IF b = 244 THEN 143 ELSE 191])
              ELSE <<65533>> \o Utf8Run(bytes, i + 1, Utf8Start)
         ELSE IF b < st.lower \/ b > st.upper
              THEN \* error; the byte is processed again as a first byte
                   <<65533>> \o Utf8Run(bytes, i, Utf8Start)
              ELSE LET cp == st.cp * 64 + (b % 64) IN
                   IF st.seen + 1 = st.needed
                   THEN CodeUnits(cp) \o Utf8Run(bytes, i + 1, Utf8Start)
                   ELSE Utf8Run(bytes, i + 1,
                                [st EXCEPT !.seen = st.seen + 1, !.cp = cp,
                                           !.lower = 128, !.upper = 191])

TextDecoderDecode(bytes) ==
    LET out == Utf8Run(bytes, 1, Utf8Start) IN
    IF Len(out) > 0 /\ out[1] = 65279 THEN Tail(out) ELSE out

\* Chunks the summary service's stream delivers: the first byte of U+00E9
\* and its second byte.
ChunkInputs == {<<195>>, <<169>>}

---------------------------------------------------------------------------
(* search(keyword, data).  Keywords are regular expressions made of        *)
(* letters, digits and blanks only, which match themselves; the regular    *)
(* expression object is built once with the flags 'gi' and carries its     *)
(* lastIndex from one test() call to the next.                             *)

\* code units String.prototype.trim removes
WhiteSpace ==
    {9, 10, 11, 12, 13, 32, 160, 5760, 8232, 8233, 8239, 8287, 12288, 65279}
        \cup (8192..8202)

RECURSIVE TrimStart(_)
TrimStart(s) ==
    IF Len(s) > 0 /\ s[1] \in WhiteSpace THEN TrimStart(Tail(s)) ELSE s

RECURSIVE TrimEnd(_)
TrimEnd(s) ==
    IF Len(s) > 0 /\ s[Len(s)] \in WhiteSpace
    THEN TrimEnd(SubSeq(s, 1, Len(s) - 1)) ELSE s

trim(s) == TrimEnd(TrimStart(s))

\* Canonicalize of the 'i' flag: the upper case of a code unit, for the
\* ASCII and Latin-1 code units (U+00DF has no one-unit upper case); the
\* other code units that occur in the model have no case.
Canonicalize(ch) ==
    IF ch >= 97 /\ ch <= 122 THEN ch - 32
    ELSE IF ch >= 224 /\ ch <= 254 /\ ch # 247 THEN ch - 32
    ELSE IF ch = 255 THEN 376
    ELSE IF ch = 181 THEN 924
    ELSE ch

\* new RegExp(pattern, 'gi') throws a SyntaxError.  The patterns of the
\* model are made of letters, blanks and "(": a "(" opens a group that
\* nothing closes, every other pattern is a sequence of literal characters.
RegExpThrows(pattern) == \E i \in 1..Len(pattern) : pattern[i] = 40

\* pattern matches text at the 0-based position p
MatchesAt(pattern, text, p) ==
    /\ p + Len(pattern) <= Len(text)
    /\ \A j \in 1..Len(pattern) :
           Canonicalize(text[p + j]) = Canonicalize(pattern[j])

\* regex.test(text) of a global regular expression whose lastIndex is
\* lastIndex: the search starts at lastIndex; a match moves lastIndex to its
\* end, a failure resets lastIndex to 0.
RegExpTest(pattern, text, lastIndex) ==
    LET found == {p \in lastIndex..Len(text) : MatchesAt(pattern, text, p)} IN
    IF found = {}
    THEN [result |-> FALSE, lastIndex |-> 0]
    ELSE LET p == CHOOSE q \in found : \A r \in found : q <= r IN
         [result |-> TRUE, lastIndex |-> p + Len(pattern)]

\* the texts of all parts of all messages of a conversation, in order
RECURSIVE PartTexts(_)
PartTexts(messages) ==
    IF messages = <<>> THEN <<>>
    ELSE [i \in 1..Len(messages[1].parts) |-> messages[1].parts[i].text]
             \o PartTexts(Tail(messages))

\* the forEach over the parts of one item: a part with a non-empty text is
\* tested; [hit, lastIndex] after the texts from i on
RECURSIVE TestParts(_, _, _, _, _)
TestParts(pattern, texts, i, hit, lastIndex) ==
    IF i > Len(texts) THEN [result |-> hit, lastIndex |-> lastIndex]
    ELSE IF texts[i] = <<>>
    THEN TestParts(pattern, texts, i + 1, hit, lastIndex)
    ELSE LET t == RegExpTest(pattern, texts[i], lastIndex) IN
         TestParts(pattern, texts, i + 1, hit \/ t.result, t.lastIndex)

\* one pass of the loop body for an item: title, then (only if the title
\* did not match) the system instruction, then the parts
TestItem(pattern, item, lastIndex) ==
    LET t1 == RegExpTest(pattern, item.title, lastIndex)
        t2 == IF t1.result THEN t1
              ELSE RegExpTest(pattern, item.systemInstruction, t1.lastIndex)
    IN  TestParts(pattern, PartTexts(item.messages), 1, t2.result, t2.lastIndex)

RECURSIVE SearchFrom(_, _, _, _)
SearchFrom(pattern, data, i, lastIndex) ==
    IF i > Len(data) THEN <<>>
    ELSE LET t == TestItem(pattern, data[i].conversation, lastIndex) IN
         (IF t.result THEN <<data[i]>> ELSE <<>>)
             \o SearchFrom(pattern, data, i + 1, t.lastIndex)

search(keyword, data) == SearchFrom(trim(keyword), data, 1, 0)

\* Keywords the user types into the search bar: "a", " b ", "(".
KeywordInputs == {<<97>>, <<32, 98, 32>>, <<40>>}

---------------------------------------------------------------------------
(* AppSidebar: what the sidebar shows                                      *)

NullConversations == [null |-> TRUE, map |-> <<>>]

\* sources of the list memo: the search results when there are some
Sources(results, list) == IF results.null THEN list ELSE results.map

\* faulty variant of ListedIds: every id ever generated stays listed
ListedIdsEverGenerated(results, list) == {nanoid(n) : n \in 1..nanoidCount}

\* ids of the items of the pinned group and of the conversation group
ListedIds(results, list) == Keys(Sources(results, list)) \ {DefaultId}

\* ids of all ConversationItems: the "default" item is always rendered
Displayed(results, list) == {DefaultId} \cup ListedIds(results, list)

\* the dropdown menu of an item is rendered unless its title editor is
MenuShown(id) ==
    /\ id \in Displayed(conversations, conversationList)
    /\ id \notin editTitleMode

\* the pin / unpin entry of the menu: id !== 'default'
ShowsPin(id) == id # DefaultId

\* faulty variant of ShowsRenameGroup: the group is rendered for every item
ShowsRenameGroupAlways(id) == TRUE

\* the AI rename / rename / delete group of the menu: id !== 'default'
ShowsRenameGroup(id) == id # DefaultId

---------------------------------------------------------------------------
(* Setting dialog: the model options (modelOptions memo)                   *)
(* Model names, display names and GEMINI_MODEL_LIST are texts, sequences   *)
(* of UTF-16 code units like the texts of the sidebar.                     *)

\* The Model record of constant/model.ts, its properties in insertion order.
Model ==
    <<
    \* 'gemini-1.5-pro': 'Gemini 1.5 Pro'
    [key |-> <<103, 101, 109, 105, 110, 105, 45, 49, 46, 53, 45, 112, 114, 111>>,
     value |-> <<71, 101, 109, 105, 110, 105, 32, 49, 46, 53, 32, 80, 114, 111>>],
    \* 'gemini-1.5-pro-latest': 'Gemini 1.5 Pro Latest'
    [key |-> <<103, 101, 109, 105, 110, 105, 45, 49, 46, 53, 45, 112, 114, 111, 45, 108, 97, 116, 101, 115, 116>>,
     value |-> <<71, 101, 109, 105, 110, 105, 32, 49, 46, 53, 32, 80, 114, 111, 32, 76, 97, 116, 101, 115, 116>>],
    \* 'gemini-1.5-flash': 'Gemini 1.5 Flash'
    [key |-> <<103, 101, 109, 105, 110, 105, 45, 49, 46, 53, 45, 102, 108, 97, 115, 104>>,
     value |-> <<71, 101, 109, 105, 110, 105, 32, 49, 46, 53, 32, 70, 108, 97, 115, 104>>],
    \* 'gemini-1.5-flash-latest': 'Gemini 1.5 Flash Latest'
    [key |-> <<103, 101, 109, 105, 110, 105, 45, 49, 46, 53, 45, 102, 108, 97, 115, 104, 45, 108, 97, 116, 101, 115, 116>>,
     value |-> <<71, 101, 109, 105, 110, 105, 32, 49, 46, 53, 32, 70, 108, 97, 115, 104, 32, 76, 97, 116, 101, 115, 116>>],
    \* 'gemini-1.5-flash-8b': 'Gemini 1.5 Flash-8B'
    [key |-> <<103, 101, 109, 105, 110, 105, 45, 49, 46, 53, 45, 102, 108, 97, 115, 104, 45, 56, 98>>,
     value |-> <<71, 101, 109, 105, 110, 105, 32, 49, 46, 53, 32, 70, 108, 97, 115, 104, 45, 56, 66>>],
    \* 'gemini-1.5-flash-8b-latest': 'Gemini 1.5 Flash-8B Latest'
    [key |-> <<103, 101, 109, 105, 110, 105, 45, 49, 46, 53, 45, 102, 108, 97, 115, 104, 45, 56, 98, 45, 108, 97, 116, 101, 115, 116>>,
     value |-> <<71, 101, 109, 105, 110, 105, 32, 49, 46, 53, 32, 70, 108, 97, 115, 104, 45, 56, 66, 32, 76, 97, 116, 101, 115, 116>>],
    \* 'gemini-1.0-pro-vision': 'Gemini 1.0 Pro Vision'
    [key |-> <<103, 101, 109, 105, 110, 105, 45, 49, 46, 48, 45, 112, 114, 111, 45, 118, 105, 115, 105, 111, 110>>,
     value |-> <<71, 101, 109, 105, 110, 105, 32, 49, 46, 48, 32, 80, 114, 111, 32, 86, 105, 115, 105, 111, 110>>],
    \* 'gemini-1.0-pro-vision-latest': 'Gemini 1.0 Pro Vision Latest'
    [key |-> <<103, 101, 109, 105, 110, 105, 45, 49, 46, 48, 45, 112, 114, 111, 45, 118, 105, 115, 105, 111, 110, 45, 108, 97, 116, 101, 115, 116>>,
     value |-> <<71, 101, 109, 105, 110, 105, 32, 49, 46, 48, 32, 80, 114, 111, 32, 86, 105, 115, 105, 111, 110, 32, 76, 97, 116, 101, 115, 116>>],
    \* 'gemini-1.0-pro': 'Gemini 1.0 Pro'
    [key |-> <<103, 101, 109, 105, 110, 105, 45, 49, 46, 48, 45, 112, 114, 111>>,
     value |-> <<71, 101, 109, 105, 110, 105, 32, 49, 46, 48, 32, 80, 114, 111>>],
    \* 'gemini-1.0-pro-latest': 'Gemini 1.0 Pro Latest'
    [key |-> <<103, 101, 109, 105, 110, 105, 45, 49, 46, 48, 45, 112, 114, 111, 45, 108, 97, 116, 101, 115, 116>>,
     value |-> <<71, 101, 109, 105, 110, 105, 32, 49, 46, 48, 32, 80, 114, 111, 32, 76, 97, 116, 101, 115, 116>>],
    \* 'gemini-pro-vision': 'Gemini Pro Vision'
    [key |-> <<103, 101, 109, 105, 110, 105, 45, 112, 114, 111, 45, 118, 105, 115, 105, 111, 110>>,
     value |-> <<71, 101, 109, 105, 110, 105, 32, 80, 114, 111, 32, 86, 105, 115, 105, 111, 110>>],
    \* 'gemini-pro': 'Gemini Pro'
    [key |-> <<103, 101, 109, 105, 110, 105, 45, 112, 114, 111>>,
     value |-> <<71, 101, 109, 105, 110, 105, 32, 80, 114, 111>>]
    >>

\* keys(object), values(object): in property order (no model name is an
\* integer index, so the order is the insertion order)
keys(record) == [i \in 1..Len(record) |-> record[i].key]

values(record) == [i \in 1..Len(record) |-> record[i].value]

\* array.includes(x)
includes(list, x) == \E i \in 1..Len(list) : list[i] = x

\* object[key] = value: an existing property keeps its place
SetProperty(record, key, value) ==
    IF includes(keys(record), key)
    THEN [i \in 1..Len(record) |->
              IF record[i].key = key THEN [key |-> key, value |-> value]
              ELSE record[i]]
    ELSE Append(record, [key |-> key, value |-> value])

\* the 0-based position of the first occurrence of pattern in text, or -1
IndexOfText(text, pattern) ==
    LET found == {p \in 0..(Len(text) - Len(pattern)) :
                      SubSeq(text, p + 1, p + Len(pattern)) = pattern}
    IN  IF found = {} THEN -1
        ELSE CHOOSE p \in found : \A q \in found : p <= q

\* text.replace(pattern, ''): the first occurrence is removed
RemoveFirst(text, pattern) ==
    LET p == IndexOfText(text, pattern) IN
    IF p < 0 THEN text
    ELSE SubSeq(text, 1, p) \o SubSeq(text, p + Len(pattern) + 1, Len(text))

\* 'models/'
ModelsPrefix == <<109, 111, 100, 101, 108, 115, 47>>

\* the forEach over modelStore.models; known is values(Model) as read before
\* the loop
RECURSIVE MergeFrom(_, _, _, _)
MergeFrom(record, known, items, i) ==
    IF i > Len(items) THEN record
    ELSE LET modelName == RemoveFirst(items[i].name, ModelsPrefix) IN
         MergeFrom(IF ~includes(known, modelName)
                   THEN SetProperty(record, modelName, items[i].displayName)
                   ELSE record,
                   known, items, i + 1)

\* the Model record after the fetched models have been added to it
MergeModels(record, items) ==
    IF Len(items) > 0 THEN MergeFrom(record, values(record), items, 1)
    ELSE record

\* text.split(separator) for a separator of one code unit
RECURSIVE split(_, _)
split(text, separator) ==
    LET p == IndexOfText(text, <<separator>>) IN
    IF p < 0 THEN <<text>>
    ELSE <<SubSeq(text, 1, p)>>
             \o split(SubSeq(text, p + 2, Len(text)), separator)

\* GEMINI_MODEL_LIST ? GEMINI_MODEL_LIST.split(',') : []  (an unset variable
\* and the empty text are both <<>>)
UserModels(list) == IF list = <<>> THEN <<>> ELSE split(list, 44)

\* text.startsWith(ch) for one code unit
startsWith(text, ch) == Len(text) > 0 /\ text[1] = ch

\* the for loop of the 'all' branch: each name is pushed unless included
RECURSIVE PushMissing(_, _, _)
PushMissing(modelList, names, i) ==
    IF i > Len(names) THEN modelList
    ELSE PushMissing(IF includes(modelList, names[i]) THEN modelList
                     ELSE Append(modelList, names[i]),
                     names, i + 1)

\* modelList.filter(name => !defaultModelList.includes(name))
WithoutAll(modelList, defaultModelList) ==
    LET Keep(name) == ~includes(defaultModelList, name) IN
    SelectSeq(modelList, Keep)

\* modelList.filter(name => name !== removed)
Without(modelList, removed) ==
    LET Keep(name) == name # removed IN SelectSeq(modelList, Keep)

\* modelList.push(name) of the last branch
PushName(modelList, name) == Append(modelList, name)

\* one pass of userModels.forEach on the locals modelList and defaultModel
\* and on the model of the setting store
ApplyToken(st, modelName, defaultModelList) ==
    IF modelName = <<97, 108, 108>> \/ modelName = <<43, 97, 108, 108>>
    THEN [st EXCEPT !.modelList = PushMissing(@, defaultModelList, 1)]
    ELSE IF modelName = <<45, 97, 108, 108>>
    THEN [st EXCEPT !.modelList = WithoutAll(@, defaultModelList)]
    ELSE IF startsWith(modelName, 45)
    THEN [st EXCEPT !.modelList = Without(@, Tail(modelName))]
    ELSE IF startsWith(modelName, 64)
    THEN LET name == Tail(modelName) IN
         [modelList |-> IF includes(st.modelList, name) THEN st.modelList
                        ELSE Append(st.modelList, name),
          defaultModel |-> name,
          model |-> name]
    ELSE [st EXCEPT !.modelList =
              PushName(@, IF startsWith(modelName, 43) THEN Tail(modelName)
                          ELSE modelName)]

RECURSIVE ApplyTokens(_, _, _, _)
ApplyTokens(st, userModels, i, defaultModelList) ==
    IF i > Len(userModels) THEN st
    ELSE ApplyTokens(ApplyToken(st, userModels[i], defaultModelList),
                     userModels, i + 1, defaultModelList)

\* 'gemini-1.5-flash-latest'
DefaultModel == <<103, 101, 109, 105, 110, 105, 45, 49, 46, 53, 45, 102, 108, 97, 115, 104, 45, 108, 97, 116, 101, 115, 116>>

\* The modelOptions memo run on the Model record, the fetched models, the
\* value of GEMINI_MODEL_LIST and the model saved in the setting store:
\* the Model record and the saved model it leaves, and the options returned.
ModelOptions(record, fetched, list, saved) ==
    LET merged == MergeModels(record, fetched)
        defaultModelList == keys(merged)
        st == ApplyTokens([modelList |-> <<>>,
                           defaultModel |-> DefaultModel,
                           model |-> saved],
                          UserModels(list), 1, defaultModelList)
        models == IF Len(st.modelList) > 0 THEN st.modelList
                  ELSE defaultModelList
    IN  [Model |-> merged,
         models |-> models,
         model |-> IF ~includes(models, st.defaultModel) THEN models[1]
                   ELSE st.model]

---------------------------------------------------------------------------
(* The state after construction: the reserved "default" conversation,      *)
(* empty, is the live one.                                                 *)

SidebarInit ==
    /\ conversationList = <<[id |-> DefaultId, conversation |-> EmptyConversation]>>
    /\ pinned = {}
    /\ currentId = DefaultId
    /\ messageStore = restore(EmptyConversation)
    /\ conversations = NullConversations
    /\ editTitleMode = {}
    /\ tasks = <<>>
    /\ nanoidCount = 0
    /\ messageCount = 0
    /\ steps = 0
    /\ lastOp = [name |-> "init", id |-> DefaultId]
    /\ uncaught = "none"

\* the setting dialog before its first render: GEMINI_MODEL_LIST is list,
\* the saved model is saved, the open prop is isOpen, no model has been
\* fetched
SettingInit(list, saved, isOpen) ==
    /\ geminiModelList = list
    /\ modelRecord = Model
    /\ modelStoreModels = <<>>
    /\ cachedModelList = FALSE
    /\ settingModel = saved
    /\ modelOptions = [null |-> TRUE, models |-> <<>>]
    /\ open = isOpen
    /\ fetching = 0
    /\ modelsChanged = FALSE

\* GEMINI_MODEL_LIST is not set, the saved model is the default one and the
\* dialog is closed
Init == SidebarInit /\ SettingInit(<<>>, DefaultModel, FALSE)

\* one more step of the behaviour, recorded in the history; the handler
\* returns
Step(name, id) ==
    /\ steps < MaxSteps
    /\ steps' = steps + 1
    /\ lastOp' = [name |-> name, id |-> id]
    /\ uncaught' = "none"
    /\ UNCHANGED settingVars

\* one more step of the behaviour, recorded in the history; the handler
\* lets error escape to its caller
StepThrowing(name, id, error) ==
    /\ steps < MaxSteps
    /\ steps' = steps + 1
    /\ lastOp' = [name |-> name, id |-> id]
    /\ uncaught' = error
    /\ UNCHANGED settingVars

---------------------------------------------------------------------------
(* Swap protocol                                                           *)

\* faulty variant of FlushLive: the live fields are not written back
FlushLiveSkipped(list, cur, store) == list

\* backup() and addOrUpdate(currentId, oldConversation)
FlushLive(list, cur, store) == addOrUpdate(list, cur, backup(store))

\* faulty variant of SelectResult: the target is looked up before the live
\* fields are written back
SelectResultQueryFirst(list, cur, store, id) ==
    [list |-> FlushLive(list, cur, store),
     currentId |-> id,
     store |-> restore(query(list, id))]

\* faulty variant of SelectResult: backup() and the write to the old id are
\* left out, the target is loaded from the list as it is
SelectResultWithoutBackup(list, cur, store, id) ==
    [list |-> list, currentId |-> id, store |-> restore(query(list, id))]

\* handleSelect(id) run on the stores <<list, cur, store>>
SelectResult(list, cur, store, id) ==
    LET flushed == FlushLive(list, cur, store)
        newConversation == query(flushed, id)
    IN  [list |-> flushed, currentId |-> id, store |-> restore(newConversation)]

\* click on a ConversationItem
HandleSelect(id) ==
    /\ Step("select", id)
    /\ id \in Displayed(conversations, conversationList)
    /\ LET r == SelectResult(conversationList, currentId, messageStore, id) IN
       /\ conversationList' = r.list
       /\ currentId' = r.currentId
       /\ messageStore' = r.store
    /\ UNCHANGED <<pinned, conversations, editTitleMode, tasks, nanoidCount,
                   messageCount>>

\* faulty variant of NewConversation: the new conversation becomes the live
\* one without being stored under its id
NewConversationNotStored ==
    /\ Step("create", nanoid(nanoidCount + 1))
    /\ nanoidCount < MaxIds
    /\ currentId' = nanoid(nanoidCount + 1)
    /\ conversationList' = FlushLive(conversationList, currentId, messageStore)
    /\ messageStore' = restore(EmptyConversation)
    /\ nanoidCount' = nanoidCount + 1
    /\ UNCHANGED <<pinned, conversations, editTitleMode, tasks, messageCount>>

\* click on the new-conversation button
NewConversation ==
    /\ Step("create", nanoid(nanoidCount + 1))
    /\ nanoidCount < MaxIds
    /\ LET id == nanoid(nanoidCount + 1)
           flushed == FlushLive(conversationList, currentId, messageStore)
       IN /\ currentId' = id
          /\ conversationList' = addOrUpdate(flushed, id, EmptyConversation)
          /\ messageStore' = restore(EmptyConversation)
    /\ nanoidCount' = nanoidCount + 1
    /\ UNCHANGED <<pinned, conversations, editTitleMode, tasks, messageCount>>

\* the chat view adds a message to the live conversation
AddMessage(text) ==
    /\ Step("message", currentId)
    /\ messageCount < MaxMessages
    /\ LET message == [id |-> "m" \o ToString(messageCount + 1),
                       parts |-> <<[text |-> text]>>]
       IN messageStore' =
              [messageStore EXCEPT !.messages = Append(@, message)]
    /\ messageCount' = messageCount + 1
    /\ UNCHANGED <<conversationList, pinned, currentId, conversations,
                   editTitleMode, tasks, nanoidCount>>

---------------------------------------------------------------------------
(* Dropdown menu of a ConversationItem                                     *)

\* menu entry "pin" of an item that is not pinned
Pin(id) ==
    /\ Step("pin", id)
    /\ MenuShown(id) /\ ShowsPin(id)
    /\ id \notin pinned
    /\ pinned' = pin(pinned, id)
    /\ UNCHANGED <<conversationList, currentId, messageStore, conversations,
                   editTitleMode, tasks, nanoidCount, messageCount>>

\* menu entry "unpin" of a pinned item
Unpin(id) ==
    /\ Step("unpin", id)
    /\ MenuShown(id) /\ ShowsPin(id)
    /\ id \in pinned
    /\ pinned' = unpin(pinned, id)
    /\ UNCHANGED <<conversationList, currentId, messageStore, conversations,
                   editTitleMode, tasks, nanoidCount, messageCount>>

\* menu entry "new copy": copy(id) of the store, which generates the new id
\* only when it has a conversation to copy
Copy(id) ==
    /\ Step("copy", id)
    /\ MenuShown(id)
    /\ IF id \in Keys(conversationList)
       THEN /\ nanoidCount < MaxIds
            /\ conversationList' =
                   copy(conversationList, id, nanoid(nanoidCount + 1))
            /\ nanoidCount' = nanoidCount + 1
       ELSE UNCHANGED <<conversationList, nanoidCount>>
    /\ UNCHANGED <<pinned, currentId, messageStore, conversations,
                   editTitleMode, tasks, messageCount>>

\* menu entry "delete": remove(id) and nothing else
Remove(id) ==
    /\ Step("remove", id)
    /\ MenuShown(id) /\ ShowsRenameGroup(id)
    /\ conversationList' = remove(conversationList, id)
    /\ pinned' = unpin(pinned, id)
    /\ UNCHANGED <<currentId, messageStore, conversations, editTitleMode,
                   tasks, nanoidCount, messageCount>>

\* menu entry "rename": the item shows its title editor
SetEditTitleMode(id) ==
    /\ Step("edit", id)
    /\ MenuShown(id) /\ ShowsRenameGroup(id)
    /\ editTitleMode' = editTitleMode \cup {id}
    /\ UNCHANGED <<conversationList, pinned, currentId, messageStore,
                   conversations, tasks, nanoidCount, messageCount>>

\* editTitle(text): setTitle(text) on the Message Store
editTitle(store, text) == setTitle(store, text)

\* click on the save button of the title editor of item id, text being the
\* editor's content: editTitle(text), then the click reaches the item's own
\* onClick, handleSelect(id)
SaveTitle(id, text) ==
    /\ Step("rename", id)
    /\ id \in editTitleMode
    /\ LET r == SelectResult(conversationList, currentId,
                             editTitle(messageStore, text), id)
       IN /\ conversationList' = r.list
          /\ currentId' = r.currentId
          /\ messageStore' = r.store
    /\ editTitleMode' = editTitleMode \ {id}
    /\ UNCHANGED <<pinned, conversations, tasks, nanoidCount, messageCount>>

---------------------------------------------------------------------------
(* handleSummaryTitle(id): one task per call                               *)

\* menu entry "AI rename": the part of handleSummaryTitle before the first
\* await; currentId and the stored conversation are captured here
HandleSummaryTitle(id) ==
    /\ Step("summary", id)
    /\ MenuShown(id) /\ ShowsRenameGroup(id)
    /\ Len(tasks) < MaxTasks
    /\ tasks' = Append(tasks,
                       [id |-> id,
                        currentId |-> currentId,
                        conversation |-> query(conversationList, id),
                        content |-> <<>>,
                        received |-> <<>>,
                        pc |-> "reading"])
    /\ UNCHANGED <<conversationList, pinned, currentId, messageStore,
                   conversations, editTitleMode, nanoidCount, messageCount>>

\* the string appended to content for one chunk
DecodeChunk(value) == TextDecoderDecode(value)

\* the conversation written for one chunk
ChunkWrite(task, content) == [task.conversation EXCEPT !.title = content]

\* faulty variant of ChunkTarget: the chunk is written to the conversation
\* that is current when it arrives
ChunkTargetCurrent(task, cur) == cur

\* the key the chunk is written to: the id the call was given
ChunkTarget(task, cur) == task.id

\* reader.read() yields a chunk
ReadChunk(t, value) ==
    /\ t \in 1..Len(tasks)
    /\ tasks[t].pc = "reading"
    /\ Step("chunk", tasks[t].id)
    /\ Len(tasks[t].received) < MaxChunks
    /\ LET content == tasks[t].content \o DecodeChunk(value) IN
       /\ tasks' = [tasks EXCEPT ![t].content = content,
                                 ![t].received = Append(@, value)]
       /\ conversationList' =
              addOrUpdate(conversationList, ChunkTarget(tasks[t], currentId),
                          ChunkWrite(tasks[t], content))
    /\ UNCHANGED <<pinned, currentId, messageStore, conversations,
                   editTitleMode, nanoidCount, messageCount>>

\* the test guarding the final setTitle: the id against the currentId
\* captured when the task started
SummaryIsCurrent(task, cur) == task.id = task.currentId

\* a task that has ended: its locals are gone
Ended(pc) ==
    [id |-> DefaultId, currentId |-> DefaultId,
     conversation |-> EmptyConversation, content |-> <<>>, received |-> <<>>,
     pc |-> pc]

\* reader.read() yields done
ReadDone(t) ==
    /\ t \in 1..Len(tasks)
    /\ tasks[t].pc = "reading"
    /\ Step("done", tasks[t].id)
    /\ tasks' = [tasks EXCEPT ![t] = Ended("done")]
    /\ messageStore' = IF SummaryIsCurrent(tasks[t], currentId)
                       THEN setTitle(messageStore, tasks[t].content)
                       ELSE messageStore
    /\ UNCHANGED <<conversationList, pinned, currentId, conversations,
                   editTitleMode, nanoidCount, messageCount>>

\* faulty variant of ReadFail: the final setTitle runs although the call
\* was rejected
ReadFailSetsTitle(t) ==
    /\ t \in 1..Len(tasks)
    /\ tasks[t].pc = "reading"
    /\ Step("fail", tasks[t].id)
    /\ tasks' = [tasks EXCEPT ![t] = Ended("failed")]
    /\ messageStore' = setTitle(messageStore, tasks[t].content)
    /\ UNCHANGED <<conversationList, pinned, currentId, conversations,
                   editTitleMode, nanoidCount, messageCount>>

\* summaryTitle(config) or reader.read() rejects: the task ends there
ReadFail(t) ==
    /\ t \in 1..Len(tasks)
    /\ tasks[t].pc = "reading"
    /\ Step("fail", tasks[t].id)
    /\ tasks' = [tasks EXCEPT ![t] = Ended("failed")]
    /\ UNCHANGED <<conversationList, pinned, currentId, messageStore,
                   conversations, editTitleMode, nanoidCount, messageCount>>

---------------------------------------------------------------------------
(* Search bar                                                              *)

\* faulty variant of HandleSearch: the SyntaxError is caught and the search
\* shows no result
HandleSearchCatches(keyword) ==
    /\ Step("search", DefaultId)
    /\ LET result == IF RegExpThrows(trim(keyword)) THEN <<>>
                     ELSE search(keyword, conversationList)
       IN /\ conversations' = [null |-> FALSE, map |-> result]
          /\ editTitleMode' = editTitleMode \cap Keys(result)
    /\ UNCHANGED <<conversationList, pinned, currentId, messageStore, tasks,
                   nanoidCount, messageCount>>

\* faulty variant of HandleSearch: the results replace the Conversation List
\* instead of being kept in the component state
HandleSearchFiltersList(keyword) ==
    /\ Step("search", DefaultId)
    /\ conversationList' =
           IF RegExpThrows(trim(keyword)) THEN conversationList
           ELSE search(keyword, conversationList)
    /\ UNCHANGED <<pinned, currentId, messageStore, conversations,
                   editTitleMode, tasks, nanoidCount, messageCount>>

\* handleSearch(keyword); an item that is no longer rendered loses its state.
\* The SyntaxError of new RegExp is caught neither by search nor by
\* handleSearch: setConversations is not reached.
HandleSearch(keyword) ==
    /\ IF RegExpThrows(trim(keyword))
       THEN /\ StepThrowing("search", DefaultId, "SyntaxError")
            /\ UNCHANGED <<conversations, editTitleMode>>
       ELSE /\ Step("search", DefaultId)
            /\ LET result == search(keyword, conversationList) IN
               /\ conversations' = [null |-> FALSE, map |-> result]
               /\ editTitleMode' = editTitleMode \cap Keys(result)
    /\ UNCHANGED <<conversationList, pinned, currentId, messageStore, tasks,
                   nanoidCount, messageCount>>

\* handleClearKeyword()
HandleClearKeyword ==
    /\ Step("clear", DefaultId)
    /\ conversations' = NullConversations
    /\ editTitleMode' = editTitleMode \cap Keys(conversationList)
    /\ UNCHANGED <<conversationList, pinned, currentId, messageStore, tasks,
                   nanoidCount, messageCount>>

---------------------------------------------------------------------------
(* Setting dialog                                                          *)

MaxTokens == 3     \* names in GEMINI_MODEL_LIST
MaxFetching == 2   \* fetchModels calls that wait for their answer

\* The names GEMINI_MODEL_LIST is made of: 'all', '+all', '-all',
\* '-gemini-pro', '@gemini-pro', '+gemini-pro', 'gemini-pro',
\* 'gemini-1.5-flash-latest'.
TokenInputs ==
    {<<97, 108, 108>>,
     <<43, 97, 108, 108>>,
     <<45, 97, 108, 108>>,
     <<45, 103, 101, 109, 105, 110, 105, 45, 112, 114, 111>>,
     <<64, 103, 101, 109, 105, 110, 105, 45, 112, 114, 111>>,
     <<43, 103, 101, 109, 105, 110, 105, 45, 112, 114, 111>>,
     <<103, 101, 109, 105, 110, 105, 45, 112, 114, 111>>,
     <<103, 101, 109, 105, 110, 105, 45, 49, 46, 53, 45, 102, 108, 97, 115, 104, 45, 108, 97, 116, 101, 115, 116>>}

\* the names joined by ','
RECURSIVE Join(_)
Join(tokens) ==
    IF tokens = <<>> THEN <<>>
    ELSE IF Len(tokens) = 1 THEN tokens[1]
    ELSE tokens[1] \o <<44>> \o Join(Tail(tokens))

\* The values of GEMINI_MODEL_LIST: not set, or up to MaxTokens names.
GeminiModelListInputs ==
    {Join(tokens) : tokens \in UNION {[1..n -> TokenInputs] : n \in 0..MaxTokens}}

\* The model saved by an earlier session: 'gemini-1.5-flash-latest' or
\* 'gemini-pro', both names of the Model record.
SavedModelInputs == {DefaultModel, <<103, 101, 109, 105, 110, 105, 45, 112, 114, 111>>}

\* The answers of fetchModels: no model, or one model,
\* { name: 'models/gemini-2.0-flash', displayName: 'Gemini 2.0 Flash' }.
FetchedModelsInputs ==
    {<<>>,
     <<[name |-> <<109, 111, 100, 101, 108, 115, 47, 103, 101, 109, 105, 110, 105, 45, 50, 46, 48, 45, 102, 108, 97, 115, 104>>,
        displayName |-> <<71, 101, 109, 105, 110, 105, 32, 50, 46, 48, 32, 70, 108, 97, 115, 104>>]>>}

\* the modelOptions memo is computed for the fetched models
ComputeModelOptions(fetched) ==
    LET r == ModelOptions(modelRecord, fetched, geminiModelList, settingModel)
    IN  /\ modelRecord' = r.Model
        /\ settingModel' = r.model
        /\ modelOptions' = [null |-> FALSE, models |-> r.models]

\* the layout effect run with the open prop isOpen: fetchModels is called
\* when the dialog is open and no model list has been cached
LayoutEffect(isOpen) ==
    IF isOpen /\ ~cachedModelList
    THEN fetching < MaxFetching /\ fetching' = fetching + 1
    ELSE fetching' = fetching

\* the first render of the Setting component: the memo is computed, then
\* the layout effect runs
RenderSetting ==
    /\ modelOptions.null
    /\ ComputeModelOptions(modelStoreModels)
    /\ LayoutEffect(open)
    /\ modelsChanged' = FALSE
    /\ UNCHANGED <<geminiModelList, modelStoreModels, cachedModelList, open>>
    /\ UNCHANGED sidebarVars

\* the parent renders the component with another value of the open prop:
\* the layout effect, which depends on it, runs again
SetOpen(isOpen) ==
    /\ ~modelOptions.null
    /\ isOpen # open
    /\ open' = isOpen
    /\ LayoutEffect(isOpen)
    /\ UNCHANGED <<geminiModelList, modelRecord, modelStoreModels,
                   cachedModelList, settingModel, modelOptions,
                   modelsChanged>>
    /\ UNCHANGED sidebarVars

\* a fetchModels call resolves with models: the then callback of the layout
\* effect; the list is stored and cached only if it is not empty
FetchedModels(models) ==
    /\ fetching > 0
    /\ fetching' = fetching - 1
    /\ IF Len(models) > 0
       THEN /\ modelStoreModels' = models
            /\ cachedModelList' = TRUE
            /\ modelsChanged' = TRUE
       ELSE UNCHANGED <<modelStoreModels, cachedModelList, modelsChanged>>
    /\ UNCHANGED <<geminiModelList, modelRecord, settingModel, modelOptions,
                   open>>
    /\ UNCHANGED sidebarVars

\* the render that follows a change of modelStore.models: the memo, which
\* depends on it, is computed again
RerenderSetting ==
    /\ ~modelOptions.null
    /\ modelsChanged
    /\ ComputeModelOptions(modelStoreModels)
    /\ modelsChanged' = FALSE
    /\ UNCHANGED <<geminiModelList, modelStoreModels, cachedModelList, open,
                   fetching>>
    /\ UNCHANGED sidebarVars

\* The models the form can hold when it is submitted: an option of the
\* select, or the saved model the form started with.
SubmitModelInputs ==
    {modelOptions.models[i] : i \in 1..Len(modelOptions.models)}
        \cup {settingModel}

\* handleSubmit(values) with values.model = model: the values are saved;
\* onClose is the parent's
handleSubmit(model) ==
    /\ ~modelOptions.null
    /\ settingModel' = model
    /\ UNCHANGED <<geminiModelList, modelRecord, modelStoreModels,
                   cachedModelList, modelOptions, open, fetching,
                   modelsChanged>>
    /\ UNCHANGED sidebarVars

---------------------------------------------------------------------------
(* Specifications                                                          *)

Ids == {DefaultId} \cup {nanoid(n) : n \in 1..MaxIds}

Next ==
    \/ \E id \in Ids : HandleSelect(id)
    \/ NewConversation
    \/ \E text \in MessageInputs : AddMessage(text)
    \/ \E id \in Ids : Pin(id)
    \/ \E id \in Ids : Unpin(id)
    \/ \E id \in Ids : Copy(id)
    \/ \E id \in Ids : Remove(id)
    \/ \E id \in Ids : SetEditTitleMode(id)
    \/ \E id \in Ids, text \in TitleInputs : SaveTitle(id, text)
    \/ \E id \in Ids : HandleSummaryTitle(id)
    \/ \E t \in 1..MaxTasks, value \in ChunkInputs : ReadChunk(t, value)
    \/ \E t \in 1..MaxTasks : ReadDone(t)
    \/ \E t \in 1..MaxTasks : ReadFail(t)
    \/ \E keyword \in KeywordInputs : HandleSearch(keyword)
    \/ HandleClearKeyword

Spec == Init /\ [][Next]_vars

\* The setting dialog alone, for every value of GEMINI_MODEL_LIST and every
\* saved model.
InitSetting ==
    /\ SidebarInit
    /\ \E list \in GeminiModelListInputs, saved \in SavedModelInputs,
          isOpen \in BOOLEAN :
           SettingInit(list, saved, isOpen)

NextSetting ==
    \/ RenderSetting
    \/ \E isOpen \in BOOLEAN : SetOpen(isOpen)
    \/ \E models \in FetchedModelsInputs : FetchedModels(models)
    \/ RerenderSetting
    \/ \E model \in SubmitModelInputs : handleSubmit(model)

SpecSetting == InitSetting /\ [][NextSetting]_vars

---------------------------------------------------------------------------
(* Views used by the properties                                            *)

\* the conversations there are: the stored ones and the live one
ConversationIds(list, cur) == Keys(list) \cup {cur}

\* the fields of conversation c: the live fields when c is current, the
\* stored entry otherwise
ConversationOf(list, cur, store, c) ==
    IF c = cur THEN backup(store) ELSE query(list, c)

\* the bytes of a sequence of chunks
RECURSIVE Flatten(_)
Flatten(chunks) ==
    IF chunks = <<>> THEN <<>> ELSE chunks[1] \o Flatten(Tail(chunks))

\* text contains a case-insensitive occurrence of pattern
Contains(pattern, text) ==
    \E p \in 0..Len(text) : MatchesAt(pattern, text, p)

\* the conversation has a title, system instruction or part text that
\* contains the trimmed keyword
Matches(keyword, conversation) ==
    \/ Contains(trim(keyword), conversation.title)
    \/ Contains(trim(keyword), conversation.systemInstruction)
    \/ \E i \in 1..Len(PartTexts(conversation.messages)) :
           Contains(trim(keyword), PartTexts(conversation.messages)[i])

---------------------------------------------------------------------------
(* Properties                                                              *)

\* C1: a selectConversation call on an id of the Conversation List keeps,
\* for every conversation there was (stored or live), its messages in their
\* order; only where they are held changes.
C1_SwitchKeepsMessages ==
    [][\A id \in Ids :
          (HandleSelect(id) /\ id \in Keys(conversationList)) =>
              \A c \in ConversationIds(conversationList, currentId) :
                  /\ c \in ConversationIds(conversationList', currentId')
                  /\ ConversationOf(conversationList', currentId',
                                    messageStore', c).messages
                       = ConversationOf(conversationList, currentId,
                                        messageStore, c).messages]_vars

\* C1 witness: after creating c1 and c2 the user is back on c1 by a switch;
\* c1's messages are live and c2's messages are stored.
C1_Witness ==
    /\ lastOp = [name |-> "select", id |-> nanoid(1)]
    /\ currentId = nanoid(1)
    /\ messageStore.messages # <<>>
    /\ nanoid(2) \in Keys(conversationList)
    /\ query(conversationList, nanoid(2)).messages # <<>>

\* C2: a write of a summarisation of id A made while another conversation B
\* is current (a chunk or the completion) leaves the live Message Store
\* fields and every list entry other than A's as they were.
C2_StaleSummaryLeavesLiveAlone ==
    [][\A t \in 1..MaxTasks :
          (/\ \/ \E value \in ChunkInputs : ReadChunk(t, value)
              \/ ReadDone(t)
           /\ tasks[t].id # currentId) =>
              /\ messageStore' = messageStore
              /\ \A c \in Keys(conversationList) \cup Keys(conversationList') :
                     c # tasks[t].id =>
                         /\ c \in Keys(conversationList)
                         /\ c \in Keys(conversationList')
                         /\ query(conversationList', c)
                              = query(conversationList, c)]_vars

\* C3: when the stream of a summarisation of id completes while id is the
\* current conversation, the live title is the final content.
C3_CompletionSetsLiveTitle ==
    [][\A t \in 1..MaxTasks :
          (ReadDone(t) /\ tasks[t].id = currentId) =>
              messageStore'.title = tasks[t].content]_vars

\* C4: selectConversation(targetId) with targetId in the list stores the
\* snapshot of the live fields at the old currentId, makes targetId current
\* and makes the live fields those stored at targetId.
C4_SelectSwaps ==
    [][\A id \in Ids :
          (HandleSelect(id) /\ id \in Keys(conversationList)) =>
              /\ currentId \in Keys(conversationList')
              /\ query(conversationList', currentId) = backup(messageStore)
              /\ currentId' = id
              /\ id \in Keys(conversationList')
              /\ backup(messageStore') = query(conversationList', id)
              /\ id # currentId =>
                     backup(messageStore') = query(conversationList, id)]_vars

\* C4 witness: the example: c1 then c2 were created, c2 got a message,
\* and c1 was selected: c1's empty state is live, c2's snapshot is stored.
C4_Witness ==
    /\ lastOp = [name |-> "select", id |-> nanoid(1)]
    /\ currentId = nanoid(1)
    /\ backup(messageStore) = EmptyConversation
    /\ Keys(conversationList) = {DefaultId, nanoid(1), nanoid(2)}
    /\ query(conversationList, nanoid(2)).messages # <<>>

\* C5: currentId always names a conversation that exists: a key of the
\* Conversation List or "default".
C5_CurrentExists ==
    currentId \in Keys(conversationList) \cup {DefaultId}

\* C6: saving text in the title editor of item id makes text the title of
\* conversation id (live when id is current, stored otherwise) and, when id
\* is not current, leaves the title of the conversation that was current
\* as it was.
C6_RenameTargetsItem ==
    [][\A id \in Ids, text \in TitleInputs :
          SaveTitle(id, text) =>
              IF id = currentId
              THEN messageStore'.title = text
              ELSE /\ query(conversationList', id).title = text
                   /\ ConversationOf(conversationList', currentId',
                                     messageStore', currentId).title
                        = messageStore.title]_vars

\* C7: search returns exactly the entries whose title, system instruction or
\* some part text contains a case-insensitive match of the trimmed keyword.
C7_SearchReturnsMatches ==
    [][\A keyword \in KeywordInputs :
          (HandleSearch(keyword) /\ ~RegExpThrows(trim(keyword))) =>
              Keys(conversations'.map) =
                  {c \in Keys(conversationList) :
                       Matches(keyword, query(conversationList, c))}]_vars

\* C8: after each chunk the content of a summarisation, and the title stored
\* at its id, is the UTF-8 decoding of all bytes received so far.
C8_TitleIsDecodedStream ==
    [][\A t \in 1..MaxTasks, value \in ChunkInputs :
          ReadChunk(t, value) =>
              /\ tasks'[t].content
                   = TextDecoderDecode(Flatten(tasks'[t].received))
              /\ query(conversationList', tasks[t].id).title
                   = TextDecoderDecode(Flatten(tasks'[t].received))]_vars

\* C9: remove is applied to ids other than "default" only, and right after
\* remove(id) the id is in neither the Conversation List nor the pinned set.
C9_RemoveDeletes ==
    [][\A id \in Ids :
          Remove(id) =>
              /\ id # DefaultId
              /\ id \notin Keys(conversationList')
              /\ id \notin pinned']_vars

\* C9 witness: a conversation other than "default" has just been removed
\* while another one is pinned.
C9_Witness ==
    /\ lastOp.name = "remove"
    /\ lastOp.id # DefaultId
    /\ lastOp.id \notin Keys(conversationList)
    /\ pinned # {}

\* the pinned ids are keys of the Conversation List other than "default"
PinnedAreListed(pins, list) == pins \subseteq (Keys(list) \ {DefaultId})

\* a step of the search bar
SearchStep ==
    \/ \E keyword \in KeywordInputs : HandleSearch(keyword)
    \/ HandleClearKeyword

\* C10: in every state reached by pin, unpin, copy, remove, create, select
\* and summarisation steps (no step of the search bar, so no search result is
\* displayed), the pinned ids are keys of the Conversation List and
\* "default" is not pinned: it is so initially, and each such step taken
\* while no search result is displayed keeps it so and displays none.
C10_PinnedAreListed ==
    /\ conversations.null
    /\ PinnedAreListed(pinned, conversationList)
    /\ [][(/\ conversations.null
           /\ PinnedAreListed(pinned, conversationList)
           /\ ~SearchStep) =>
              /\ conversations'.null
              /\ PinnedAreListed(pinned', conversationList')]_vars

\* C10 witness: with no search result displayed, an id is pinned after
\* another id has been removed.
C10_Witness ==
    /\ conversations.null
    /\ lastOp.name = "pin"
    /\ lastOp.id \in pinned
    /\ \E n \in 1..nanoidCount : nanoid(n) \notin Keys(conversationList)

\* C11: the new-conversation step writes the live fields into the list at
\* the old currentId, stores under the newly generated id a conversation with
\* an empty title, no messages, an empty summary, an empty system instruction
\* and the layout "doc", makes that id current and loads it into the Message
\* Store; every other entry and the pinned set stay as they were.
C11_CreateStoresEmpty ==
    [][NewConversation =>
          LET id == nanoid(nanoidCount + 1)
              empty == [title |-> <<>>, messages |-> <<>>,
                        summary |-> [ids |-> <<>>, content |-> <<>>],
                        systemInstruction |-> <<>>, chatLayout |-> "doc"]
          IN  /\ id \notin Keys(conversationList)
              /\ Keys(conversationList') =
                     Keys(conversationList) \cup {currentId, id}
              /\ query(conversationList', currentId) = backup(messageStore)
              /\ query(conversationList', id) = empty
              /\ currentId' = id
              /\ backup(messageStore') = empty
              /\ \A c \in Keys(conversationList) \ {currentId} :
                     query(conversationList', c) = query(conversationList, c)
              /\ pinned' = pinned]_vars

\* C11 witness: a second conversation has just been created while the first
\* one, pinned and holding a message, was the live one.
C11_Witness ==
    /\ lastOp.name = "create"
    /\ currentId = lastOp.id
    /\ backup(messageStore) = EmptyConversation
    /\ \E c \in pinned :
           /\ c # currentId
           /\ query(conversationList, c).messages # <<>>

\* C12: selecting the conversation that is already current changes neither
\* currentId nor any live field (message and part order, summary ids
\* included), also when a summarisation has written a title into its list
\* entry that differs from the live title.
C12_SelectCurrentKeepsLive ==
    [][\A id \in Ids :
          (HandleSelect(id) /\ id = currentId) =>
              /\ currentId' = currentId
              /\ messageStore' = messageStore]_vars

\* C12 witness: the current conversation, holding a message, has just been
\* selected while its summarisation is in flight with a chunk written whose
\* text is not the live title.
C12_Witness ==
    /\ lastOp.name = "select"
    /\ lastOp.id = currentId
    /\ messageStore.messages # <<>>
    /\ \E t \in 1..Len(tasks) :
           /\ tasks[t].pc = "reading"
           /\ tasks[t].id = currentId
           /\ tasks[t].currentId = currentId
           /\ tasks[t].content # <<>>
           /\ tasks[t].content # messageStore.title

\* C13: selecting an id that is not in the Conversation List fails: currentId
\* is not set to that id and the live fields are not replaced.
C13_SelectAbsentFails ==
    [][\A id \in Ids :
          (HandleSelect(id) /\ id \notin Keys(conversationList)) =>
              /\ currentId' = currentId
              /\ messageStore' = messageStore]_vars

\* C14: a search whose trimmed keyword is not a valid regular expression ends
\* with the SyntaxError reaching the caller of the handler, and leaves the
\* Conversation List and the search results displayed before it unchanged.
C14_InvalidKeywordFails ==
    [][\A keyword \in KeywordInputs :
          (HandleSearch(keyword) /\ RegExpThrows(trim(keyword))) =>
              /\ uncaught' = "SyntaxError"
              /\ conversations' = conversations
              /\ conversationList' = conversationList]_vars

\* C14 witness: a search has just failed while the results of an earlier
\* search, one conversation out of several, are displayed.
C14_Witness ==
    /\ lastOp.name = "search"
    /\ uncaught = "SyntaxError"
    /\ ~conversations.null
    /\ Len(conversations.map) = 1
    /\ Len(conversationList) > 1

\* C15: a search, and the handlers of the search bar (search and clear
\* keyword), leave the Conversation List with every conversation in it, the
\* pinned set, currentId and the live fields as they were.
C15_SearchChangesNoStore ==
    [][((\E keyword \in KeywordInputs : HandleSearch(keyword))
            \/ HandleClearKeyword) =>
          /\ conversationList' = conversationList
          /\ pinned' = pinned
          /\ currentId' = currentId
          /\ messageStore' = messageStore]_vars

\* C15 witness: a search has just returned some, but not all, of the stored
\* conversations while a conversation is pinned.
C15_Witness ==
    /\ lastOp.name = "search"
    /\ uncaught = "none"
    /\ ~conversations.null
    /\ conversations.map # <<>>
    /\ Len(conversations.map) < Len(conversationList)
    /\ pinned # {}

\* C16: a chunk of a summarisation whose id has been removed creates an entry
\* at that id again and changes nothing else: no other conversation, not the
\* pinned set, not currentId, not the live fields.
C16_StaleChunkRecreates ==
    [][\A t \in 1..MaxTasks, value \in ChunkInputs :
          (ReadChunk(t, value) /\ tasks[t].id \notin Keys(conversationList)) =>
              /\ Keys(conversationList') =
                     Keys(conversationList) \cup {tasks[t].id}
              /\ \A c \in Keys(conversationList) :
                     query(conversationList', c) = query(conversationList, c)
              /\ pinned' = pinned
              /\ currentId' = currentId
              /\ messageStore' = messageStore]_vars

\* C16 witness: the last step is a chunk of the summarisation of a
\* conversation that is not current and is listed after a conversation
\* generated later, that is, it was removed and has been created again.
C16_Witness ==
    /\ lastOp.name = "chunk"
    /\ lastOp.id \in Keys(conversationList)
    /\ lastOp.id # currentId
    /\ \E n \in 1..nanoidCount :
           /\ lastOp.id = nanoid(n)
           /\ \E k \in (n + 1)..nanoidCount :
                  /\ nanoid(k) \in Keys(conversationList)
                  /\ IndexOf(conversationList, nanoid(k))
                         < IndexOf(conversationList, lastOp.id)

\* C17: copy(id) adds exactly one entry, under a newly generated id, whose
\* fields equal those of conversation id (the live fields when id is the
\* current conversation, the stored entry otherwise); every entry there was,
\* the pinned set, currentId and the live fields stay as they were.
C17_CopyAddsOneEntry ==
    [][\A id \in Ids :
          Copy(id) =>
              LET newId == nanoid(nanoidCount + 1) IN
              /\ newId \notin Keys(conversationList)
              /\ Keys(conversationList') = Keys(conversationList) \cup {newId}
              /\ query(conversationList', newId) =
                     ConversationOf(conversationList, currentId,
                                    messageStore, id)
              /\ \A c \in Keys(conversationList) :
                     query(conversationList', c) = query(conversationList, c)
              /\ pinned' = pinned
              /\ currentId' = currentId
              /\ messageStore' = messageStore]_vars

\* C18: when the request or a read of a summarisation rejects, the title
\* stored at its id stays what the chunks applied so far made it (the
\* previous title if there was none), the live title is not written, and no
\* other conversation, currentId or the pinned set changes.
C18_FailureIsLocal ==
    [][\A t \in 1..MaxTasks :
          ReadFail(t) =>
              /\ conversationList' = conversationList
              /\ messageStore' = messageStore
              /\ currentId' = currentId
              /\ pinned' = pinned]_vars

\* C18 witness: the summarisation of the current conversation has just
\* failed after a chunk was applied: the stored title is the chunk's text,
\* the live title is not.
C18_Witness ==
    /\ lastOp.name = "fail"
    /\ lastOp.id = currentId
    /\ lastOp.id \in Keys(conversationList)
    /\ query(conversationList, lastOp.id).title # <<>>
    /\ messageStore.title = <<>>
    /\ \E t \in 1..Len(tasks) : tasks[t].pc = "failed"

\* C19: a chunk write of a summarisation changes only the title of the entry
\* stored at its id: the messages, summary, system instruction and layout
\* stored there just after the write are those stored just before it.
C19_ChunkChangesTitleOnly ==
    [][\A t \in 1..MaxTasks, value \in ChunkInputs :
          (ReadChunk(t, value) /\ tasks[t].id \in Keys(conversationList)) =>
              LET before == query(conversationList, tasks[t].id)
                  after == query(conversationList', tasks[t].id)
              IN  /\ after.messages = before.messages
                  /\ after.summary = before.summary
                  /\ after.systemInstruction = before.systemInstruction
                  /\ after.chatLayout = before.chatLayout]_vars

\* C20: while a search is active, every item the sidebar lists is an entry of
\* the Conversation List and is shown with the title stored there.
C20_ResultsFollowList ==
    ~conversations.null =>
        \A i \in 1..Len(conversations.map) :
            LET item == conversations.map[i] IN
            item.id \in ListedIds(conversations, conversationList) =>
                /\ item.id \in Keys(conversationList)
                /\ item.conversation.title =
                       query(conversationList, item.id).title

\* the list has no element twice
NoDuplicates(list) ==
    \A i, j \in 1..Len(list) : list[i] = list[j] => i = j

\* C21: whatever GEMINI_MODEL_LIST and the saved model are, each computation
\* of the model options returns a list that is not empty and has no name
\* twice, and leaves in the setting store a model that is one of them.
C21_OptionsHoldSavedModel ==
    [][(RenderSetting \/ RerenderSetting) =>
          /\ Len(modelOptions'.models) > 0
          /\ NoDuplicates(modelOptions'.models)
          /\ includes(modelOptions'.models, settingModel')]_vars

====
